---- MODULE Spec2Model ----
(***************************************************************************)
(* Model of the rotating, buffered, per-level file log writer of package   *)
(* logtool (src/filelog.go) together with the part of Go's bufio.Writer    *)
(* and os.File that it calls.                                              *)
(*                                                                         *)
(* Sizes are scaled down: MaxSize and bufferSize keep their roles (the     *)
(* rotation threshold, the capacity of a stream's bufio.Writer) with small *)
(* values, so that size rotation, buffer overflow and pass-through writes  *)
(* all happen within a few records.  A byte of a record is <<rid, j>>:     *)
(* the j-th byte of the record of the rid-th write call to acquire w.mu.   *)
(*                                                                         *)
(* Three more specifications share the initial state: PoolSpec, the free   *)
(* list of buffers (getBuffer, putBuffer); FacadeSpec, the package's       *)
(* configuration, its level functions and its log.Logger adapter called    *)
(* from one goroutine; StartSpec, goroutines racing through the first      *)
(* calls of the package's write.                                           *)
(***************************************************************************)
EXTENDS Integers, Sequences, FiniteSets, TLC

\* ---- bounds of the model
MaxWrites == 4      \* write calls started in one behaviour
MaxTime == 2        \* hours the wall clock advances
MaxFails == 1       \* calls of createFile that fail in one behaviour
MaxBuffers == 2     \* buffers allocated by getBuffer in one behaviour
MaxBufLen == 4      \* bytes a holder puts into one buffer

\* ---- program constants (scaled)
MaxSize == 3        \* filelog.go: MaxSize
bufferSize == 2     \* filelog.go: bufferSize
BigBuffer == 3      \* filelog.go: putBuffer's 256

levelDefault == 0
LevelDebug == 1
LevelInfo == 2
LevelWarn == 3
LevelError == 4
LevelAction == 5
Levels == 0..5                           \* index set of fileLogWriter.writers
UsedLevels == {LevelInfo}                \* levels the callers write to
Hours == {0, 1}                          \* hours of a day
Callers == {"a", "b"}                    \* goroutines calling write
Daemon == "daemon"                       \* the flushDaemon goroutine
Exiter == "exit"                         \* the goroutine calling exit()
Flushers == {Daemon, Exiter}
RecLens == {1, 3}                        \* lengths of the records written
PoolUsers == {"u", "v"}                  \* goroutines using the free list
GrowSizes == {1, 2}                      \* bytes written or reserved at once
Main == "main"                           \* the goroutine that configures
Workers == {"w1", "w2"}                  \* goroutines logging after Init
Goers == {Main} \cup Workers
Names == {"", "n"}                       \* log names passed to SetName
LevelArgs == 0..6                        \* Level values passed to SetLevel
LevelStrings == {"output", "debug", "info", "warn", "error", "action",
                 "", "x"}                \* strings passed to Level.Set

VARIABLES
    clock,      \* wall clock at its last reading: hours since the start
    pc,         \* position of every goroutine
    cur,        \* per caller: the locals of its write call
    mu,         \* holder of fileLogWriter.mu, or "free"
    writers,    \* fileLogWriter.writers: one bufferWriter per level
    nopen,      \* per level: open file descriptors its stream created
    disk,       \* file name -> bytes written to the file
    recs,       \* history: one entry per write call that acquired w.mu
    console,    \* rids whose rotation error was printed
    freeList,   \* fileLogWriter.freeList: a buffer, or 0 for nil
    buffers,    \* the buffers allocated so far: next, and the bytes.Buffer
    freeListMu, \* holder of fileLogWriter.freeListMu, or "free"
    user,       \* per pool user: its position and its local b
    inited,     \* package logtool: inited
    alsoStdout, \* package logtool: alsoStdout
    logName,    \* package logtool: logName
    logLevel,   \* package logtool: logLevel
    flagLoglevel, \* package logtool: flagLoglevel, set by the -loglevel flag
    logWriter,  \* package logtool: logWriter, the two words of the interface
    created,    \* history: calls of newFileLog
    pkgMu,      \* holder of package logtool's mu, or "free"
    call        \* per goroutine: its call into the package, and the outcome

writerVars == <<clock, pc, cur, mu, writers, nopen, disk, recs, console>>

poolVars == <<freeList, buffers, freeListMu, user>>

facadeVars == <<inited, alsoStdout, logName, logLevel, flagLoglevel,
                logWriter, created, pkgMu, call>>

vars == <<writerVars, poolVars, facadeVars>>

\* ---- time ---------------------------------------------------------------

ZeroTime == [day |-> 0 - 1, hour |-> 0]

\* date and hour of the time t hours after the start
Time(t) == [day |-> t \div Cardinality(Hours),
            hour |-> t % Cardinality(Hours)]

SameDate(s, t) == s.day = t.day

SameHour(s, t) == s.hour = t.hour

\* ---- files --------------------------------------------------------------

\* createFile: directory from the date, file name from level, hour and slot
FileName(level, slot, t) ==
    [level |-> level, day |-> t.day, hour |-> t.hour,
     slot |-> IF slot <= 0 THEN 0 ELSE slot]

NoName == [level |-> 0, day |-> 0 - 1, hour |-> 0, slot |-> 0]

\* a nil *os.File
NoFile == [nil |-> TRUE, name |-> NoName, open |-> FALSE, base |-> 0]

Content(dk, name) == IF name \in DOMAIN dk THEN dk[name] ELSE <<>>

\* os.OpenFile(O_RDWR|O_CREATE|O_APPEND): base is the size found (history)
OpenFile(dk, name) ==
    [nil |-> FALSE, name |-> name, open |-> TRUE,
     base |-> Len(Content(dk, name))]

FileWriteAtStart(file, dk, p) ==
    IF file.open
    THEN [disk |-> [n \in DOMAIN dk \cup {file.name} |->
                       IF n = file.name
                       THEN p \o SubSeq(Content(dk, n), Len(p) + 1,
                                        Len(Content(dk, n)))
                       ELSE dk[n]],
          n |-> Len(p), err |-> FALSE]
    ELSE [disk |-> dk, n |-> 0, err |-> TRUE]

\* (*os.File).Write: appends (O_APPEND), or fails when the file is closed
FileWrite(file, dk, p) ==
    IF file.open
    THEN [disk |-> [n \in DOMAIN dk \cup {file.name} |->
                       IF n = file.name THEN Content(dk, n) \o p ELSE dk[n]],
          n |-> Len(p), err |-> FALSE]
    ELSE [disk |-> dk, n |-> 0, err |-> TRUE]

\* (*os.File).Close: a second Close returns an error and changes nothing
FileClose(file) == [file EXCEPT !.open = FALSE]

\* ---- bufio.Writer -------------------------------------------------------

\* a nil *bufio.Writer
NoWriter == [set |-> FALSE, buf |-> <<>>, err |-> FALSE]

NewWriterSize == [set |-> TRUE, buf |-> <<>>, err |-> FALSE]

Available(bw) == bufferSize - Len(bw.buf)

\* (*bufio.Writer).Flush: a failed write keeps the bytes and the error sticks
BufFlush(bw, file, dk) ==
    IF bw.err \/ Len(bw.buf) = 0
    THEN [bw |-> bw, disk |-> dk]
    ELSE LET r == FileWrite(file, dk, bw.buf) IN
         IF r.err
         THEN [bw |-> [bw EXCEPT !.err = TRUE], disk |-> dk]
         ELSE [bw |-> [bw EXCEPT !.buf = <<>>], disk |-> r.disk]

\* (*bufio.Writer).Write: nn counts the bytes accepted so far
RECURSIVE BufWrite(_, _, _, _, _)
BufWrite(bw, p, file, dk, nn) ==
    IF Len(p) > Available(bw) /\ ~bw.err
    THEN IF Len(bw.buf) = 0
         THEN LET r == FileWrite(file, dk, p) IN
              BufWrite([bw EXCEPT !.err = r.err],
                       SubSeq(p, r.n + 1, Len(p)), file, r.disk, nn + r.n)
         ELSE LET n == Available(bw)
                  f == BufFlush([bw EXCEPT !.buf = @ \o SubSeq(p, 1, n)],
                                file, dk)
              IN  BufWrite(f.bw, SubSeq(p, n + 1, Len(p)), file, f.disk,
                           nn + n)
    ELSE IF bw.err
         THEN [bw |-> bw, disk |-> dk, n |-> nn]
         ELSE [bw |-> [bw EXCEPT !.buf = @ \o p], disk |-> dk,
               n |-> nn + Len(p)]

\* ---- bufferWriter -------------------------------------------------------

\* a nil *bufferWriter
NoStream == [made |-> FALSE, file |-> NoFile, Writer |-> NoWriter,
             stime |-> ZeroTime, slot |-> 0, nbytes |-> 0]

\* &bufferWriter{basePath, logName, level}
NewStream == [NoStream EXCEPT !.made = TRUE]

\* the record write builds: rid's bytes, the last one its newline
Record(rid, len) == [j \in 1..len |-> <<rid, j>>]

NoRotate == 0 - 1

RotateSlotBelowSize(sb, now) ==
    IF sb.file.nil THEN 0
    ELSE IF ~SameDate(sb.stime, now) THEN 0
    ELSE IF ~SameHour(sb.stime, now) THEN 0
    ELSE IF sb.nbytes < MaxSize THEN sb.slot + 1
    ELSE NoRotate

RotateSlotNoHour(sb, now) ==
    IF sb.file.nil THEN 0
    ELSE IF ~SameDate(sb.stime, now) THEN 0
    ELSE IF sb.nbytes >= MaxSize THEN sb.slot + 1
    ELSE NoRotate

RotateSlotSizeFirst(sb, now) ==
    IF sb.file.nil THEN 0
    ELSE IF sb.nbytes >= MaxSize THEN sb.slot + 1
    ELSE IF ~SameDate(sb.stime, now) THEN 0
    ELSE IF ~SameHour(sb.stime, now) THEN 0
    ELSE NoRotate

\* checkRotate's decision: NoRotate, or the slot rotateFile is called with
RotateSlot(sb, now) ==
    IF sb.file.nil THEN 0
    ELSE IF ~SameDate(sb.stime, now) THEN 0
    ELSE IF ~SameHour(sb.stime, now) THEN 0
    ELSE IF sb.nbytes >= MaxSize THEN sb.slot + 1
    ELSE NoRotate

\* a nil Writer interface value: no type word, no data word
NilWriter == [tab |-> FALSE, data |-> 0]

\* a goroutine that is not in a call and has made none
NoOutcome == [pc |-> "idle", via |-> "none", this |-> 0, data |-> <<>>, eff |-> 0,
              level |-> 0, msg |-> <<>>, out |-> "none", w |-> 0,
              rec |-> <<>>]

\* ---- initial state ------------------------------------------------------

NoCall == [rid |-> 0, level |-> 0, now |-> ZeroTime, len |-> 0, rot |-> FALSE,
           slot |-> 0]

Init ==
    /\ clock = 0
    /\ pc = [p \in Callers \cup Flushers |-> "idle"]
    /\ cur = [p \in Callers |-> NoCall]
    /\ mu = "free"
    /\ writers = [l \in Levels |-> NoStream]
    /\ nopen = [l \in Levels |-> 0]
    /\ disk = <<>>
    /\ recs = <<>>
    /\ console = {}
    /\ freeList = 0
    /\ buffers = <<>>
    /\ freeListMu = "free"
    /\ user = [u \in PoolUsers |-> [pc |-> "idle", b |-> 0]]
    /\ inited = FALSE
    /\ alsoStdout = FALSE
    /\ logName = "logtool"
    /\ logLevel = LevelDebug
    /\ flagLoglevel = levelDefault
    /\ logWriter = NilWriter
    /\ created = 0
    /\ pkgMu = "free"
    /\ call = [g \in Goers |-> NoOutcome]

\* ---- fileLogWriter.mu ----------------------------------------------------

LockNoWait(p) == mu' = p

\* w.mu.Lock(): blocks until the mutex is free
Lock(p) == mu = "free" /\ mu' = p

\* the deferred w.mu.Unlock()
Unlock(p) == mu' = "free"

\* ---- fileLogWriter.write --------------------------------------------------

\* write calls started so far
Started == Len(recs) + Cardinality({p \in Callers : pc[p] = "lock"})

\* write, up to w.mu.Lock(): time.Now() returns t, the record is built
WriteBegin(p, level, len, t) ==
    /\ pc[p] = "idle"
    /\ Started < MaxWrites
    /\ t >= clock
    /\ clock' = t
    /\ cur' = [cur EXCEPT ![p] = [rid |-> 0, level |-> level,
                                  now |-> Time(t), len |-> len,
                                  rot |-> FALSE, slot |-> 0]]
    /\ pc' = [pc EXCEPT ![p] = "lock"]
    /\ UNCHANGED <<mu, writers, nopen, disk, recs, console, poolVars, facadeVars>>

\* rotateFile, first half: flush and close the file that is open; Flush on a
\* nil bufio.Writer is a nil dereference
CloseOld(sb, dk) ==
    IF ~sb.file.nil
    THEN IF ~sb.Writer.set
         THEN [sb |-> sb, disk |-> dk, closed |-> 0, panic |-> TRUE]
         ELSE LET f == BufFlush(sb.Writer, sb.file, dk) IN
              [sb |-> [sb EXCEPT !.Writer = f.bw, !.file = FileClose(@)],
               disk |-> f.disk,
               closed |-> IF sb.file.open THEN 1 ELSE 0,
               panic |-> FALSE]
    ELSE [sb |-> sb, disk |-> dk, closed |-> 0, panic |-> FALSE]

\* w.mu.Lock(), the lazy creation of the level's bufferWriter, checkRotate,
\* and rotateFile up to the call of createFile
WriteLock(p) ==
    LET l == cur[p].level
        sb == IF writers[l].made THEN writers[l] ELSE NewStream
        s == RotateSlot(sb, cur[p].now)
        c == CloseOld(sb, disk)
    IN  /\ pc[p] = "lock"
        /\ Lock(p)
        /\ recs' = Append(recs, [level |-> l, now |-> cur[p].now,
                                 len |-> cur[p].len, state |-> "locked",
                                 dest |-> NoName, acc |-> 0])
        /\ IF s = NoRotate
           THEN /\ pc' = [pc EXCEPT ![p] = "append"]
                /\ cur' = [cur EXCEPT ![p].rid = Len(recs) + 1]
                /\ writers' = [writers EXCEPT ![l] = sb]
                /\ UNCHANGED <<nopen, disk>>
           ELSE /\ pc' = [pc EXCEPT ![p] =
                             IF c.panic THEN "panic" ELSE "create"]
                /\ cur' = [cur EXCEPT ![p].rid = Len(recs) + 1,
                                      ![p].rot = TRUE, ![p].slot = s]
                /\ writers' = [writers EXCEPT ![l] = c.sb]
                /\ nopen' = [nopen EXCEPT ![l] = @ - c.closed]
                /\ disk' = c.disk
        /\ UNCHANGED <<clock, console, poolVars, facadeVars>>

InstallKeepCount(sb, file, now, slot) ==
    [sb EXCEPT !.file = file, !.stime = now, !.slot = slot,
               !.Writer = NewWriterSize]

\* rotateFile after createFile returned file
Install(sb, file, now, slot) ==
    [sb EXCEPT !.file = file, !.nbytes = 0, !.stime = now, !.slot = slot,
               !.Writer = NewWriterSize]

\* createFile succeeds: the file exists, opened for appending
WriteCreate(p) ==
    LET l == cur[p].level
        name == FileName(l, cur[p].slot, cur[p].now)
    IN  /\ pc[p] = "create"
        /\ disk' = [n \in DOMAIN disk \cup {name} |-> Content(disk, n)]
        /\ nopen' = [nopen EXCEPT ![l] = @ + 1]
        /\ writers' = [writers EXCEPT ![l] =
                          Install(@, OpenFile(disk, name), cur[p].now,
                                  cur[p].slot)]
        /\ pc' = [pc EXCEPT ![p] = "append"]
        /\ UNCHANGED <<clock, cur, mu, recs, console, poolVars, facadeVars>>

\* createFile fails: rotateFile returns the error, write prints it and returns
WriteCreateFail(p) ==
    /\ pc[p] = "create"
    /\ Cardinality(console) < MaxFails
    /\ console' = console \cup {cur[p].rid}
    /\ recs' = [recs EXCEPT ![cur[p].rid].state = "dropped"]
    /\ Unlock(p)
    /\ pc' = [pc EXCEPT ![p] = "idle"]
    /\ cur' = [cur EXCEPT ![p] = NoCall]
    /\ UNCHANGED <<clock, writers, nopen, disk, poolVars, facadeVars>>

\* bufferWriter.Write
SbWrite(sb, p, dk) ==
    LET r == BufWrite(sb.Writer, p, sb.file, dk, 0) IN
    [sb |-> [sb EXCEPT !.Writer = r.bw, !.nbytes = @ + r.n],
     disk |-> r.disk, n |-> r.n]

\* writer.Write(buf.Bytes()) and the deferred unlock
WriteAppend(p) ==
    LET l == cur[p].level
        r == SbWrite(writers[l], Record(cur[p].rid, cur[p].len), disk)
    IN  /\ pc[p] = "append"
        /\ writers' = [writers EXCEPT ![l] = r.sb]
        /\ disk' = r.disk
        /\ recs' = [recs EXCEPT ![cur[p].rid].state = "done",
                                ![cur[p].rid].dest = writers[l].file.name,
                                ![cur[p].rid].acc = r.n]
        /\ Unlock(p)
        /\ pc' = [pc EXCEPT ![p] = "idle"]
        /\ cur' = [cur EXCEPT ![p] = NoCall]
        /\ UNCHANGED <<clock, nopen, console, poolVars, facadeVars>>

\* ---- flushAll, flushDaemon, exit ----------------------------------------

FlushableAny(sb) == sb.made

\* flushAll's test: writer != nil && writer.Writer != nil
Flushable(sb) == sb.made /\ sb.Writer.set

\* writer.Flush(); writer.Sync().  Sync hands the bytes already written to
\* the file to stable storage: the model does not tell the two apart
FlushOne(sb, dk) ==
    LET f == BufFlush(sb.Writer, sb.file, dk) IN
    [sb |-> [sb EXCEPT !.Writer = f.bw], disk |-> f.disk]

\* the loop of flushAll over w.writers, from level l on
RECURSIVE FlushLevels(_, _, _)
FlushLevels(l, ws, dk) ==
    IF l \notin Levels
    THEN [writers |-> ws, disk |-> dk, panic |-> FALSE]
    ELSE IF ~Flushable(ws[l])
         THEN FlushLevels(l + 1, ws, dk)
         ELSE IF ~ws[l].Writer.set
              THEN [writers |-> ws, disk |-> dk, panic |-> TRUE]
              ELSE LET f == FlushOne(ws[l], dk) IN
                   FlushLevels(l + 1, [ws EXCEPT ![l] = f.sb], f.disk)

\* the ticker fires, or exit() is called: flushAll up to w.mu.Lock()
FlushLock(f) ==
    /\ pc[f] = "idle"
    /\ Lock(f)
    /\ pc' = [pc EXCEPT ![f] = "flush"]
    /\ UNCHANGED <<clock, cur, writers, nopen, disk, recs, console, poolVars, facadeVars>>

\* flushAll: the loop and the deferred unlock; then the ticker is awaited
\* again, or exit() returns
FlushBody(f) ==
    LET r == FlushLevels(0, writers, disk) IN
    /\ pc[f] = "flush"
    /\ writers' = r.writers
    /\ disk' = r.disk
    /\ IF r.panic
       THEN /\ pc' = [pc EXCEPT ![f] = "panic"]
            /\ UNCHANGED mu
       ELSE /\ pc' = [pc EXCEPT ![f] = "idle"]
            /\ Unlock(f)
    /\ UNCHANGED <<clock, cur, nopen, recs, console, poolVars, facadeVars>>

\* ---- the free list of buffers: getBuffer, putBuffer ----------------------

PoolLockNoWait(u) == freeListMu' = u

\* w.freeListMu.Lock()
PoolLock(u) == freeListMu = "free" /\ freeListMu' = u

\* w.freeListMu.Unlock()
PoolUnlock(u) == freeListMu' = "free"

\* bytes.Buffer: capacity after making room for n more bytes
Grown(buf, n) ==
    IF buf.len + n <= buf.cap THEN buf.cap ELSE 2 * buf.cap + n

\* getBuffer: the lock and b := w.freeList
GetBufferLock(u) ==
    /\ user[u].pc = "idle"
    /\ PoolLock(u)
    /\ user' = [user EXCEPT ![u] = [pc |-> "pop", b |-> freeList]]
    /\ UNCHANGED <<freeList, buffers, writerVars, facadeVars>>

\* getBuffer: w.freeList = b.next when b is not nil, and the unlock
GetBufferPop(u) ==
    /\ user[u].pc = "pop"
    /\ freeList' = IF user[u].b # 0 THEN buffers[user[u].b].next ELSE freeList
    /\ PoolUnlock(u)
    /\ user' = [user EXCEPT ![u].pc = "fresh"]
    /\ UNCHANGED <<buffers, writerVars, facadeVars>>

\* getBuffer: new(buffer), or b.next = nil and b.Reset(); return b
GetBufferReturn(u) ==
    /\ user[u].pc = "fresh"
    /\ IF user[u].b = 0
       THEN /\ Len(buffers) < MaxBuffers
            /\ buffers' = Append(buffers, [next |-> 0, len |-> 0, cap |-> 0])
            /\ user' = [user EXCEPT ![u] = [pc |-> "got",
                                            b |-> Len(buffers) + 1]]
       ELSE /\ buffers' = [buffers EXCEPT ![user[u].b].next = 0,
                                          ![user[u].b].len = 0]
            /\ user' = [user EXCEPT ![u].pc = "got"]
    /\ UNCHANGED <<freeList, freeListMu, writerVars, facadeVars>>

\* the holder writes n bytes to its buffer
BufferWrite(u, n) ==
    /\ user[u].pc \in {"got", "use"}
    /\ buffers[user[u].b].len + n <= MaxBufLen
    /\ buffers' = [buffers EXCEPT
                      ![user[u].b].cap = Grown(buffers[user[u].b], n),
                      ![user[u].b].len = @ + n]
    /\ user' = [user EXCEPT ![u].pc = "use"]
    /\ UNCHANGED <<freeList, freeListMu, writerVars, facadeVars>>

\* the holder calls Grow(n): room for n more bytes, the length stays
BufferGrow(u, n) ==
    /\ user[u].pc \in {"got", "use"}
    /\ buffers[user[u].b].len + n <= MaxBufLen
    /\ buffers' = [buffers EXCEPT
                      ![user[u].b].cap = Grown(buffers[user[u].b], n)]
    /\ user' = [user EXCEPT ![u].pc = "use"]
    /\ UNCHANGED <<freeList, freeListMu, writerVars, facadeVars>>

\* putBuffer(b): a buffer with b.Len() >= 256 is dropped
PutBufferCheck(u) ==
    /\ user[u].pc \in {"got", "use"}
    /\ user' = [user EXCEPT ![u] =
                   IF buffers[user[u].b].len >= BigBuffer
                   THEN [pc |-> "idle", b |-> 0]
                   ELSE [pc |-> "putlock", b |-> user[u].b]]
    /\ UNCHANGED <<freeList, buffers, freeListMu, writerVars, facadeVars>>

\* putBuffer: the lock
PutBufferLock(u) ==
    /\ user[u].pc = "putlock"
    /\ PoolLock(u)
    /\ user' = [user EXCEPT ![u].pc = "push"]
    /\ UNCHANGED <<freeList, buffers, writerVars, facadeVars>>

\* putBuffer: b.next = w.freeList; w.freeList = b; and the unlock
PutBufferPush(u) ==
    /\ user[u].pc = "push"
    /\ buffers' = [buffers EXCEPT ![user[u].b].next = freeList]
    /\ freeList' = user[u].b
    /\ PoolUnlock(u)
    /\ user' = [user EXCEPT ![u] = [pc |-> "idle", b |-> 0]]
    /\ UNCHANGED <<writerVars, facadeVars>>

PoolNext ==
    \/ \E u \in PoolUsers : GetBufferLock(u)
    \/ \E u \in PoolUsers : GetBufferPop(u)
    \/ \E u \in PoolUsers : GetBufferReturn(u)
    \/ \E u \in PoolUsers, n \in GrowSizes : BufferWrite(u, n)
    \/ \E u \in PoolUsers, n \in GrowSizes : BufferGrow(u, n)
    \/ \E u \in PoolUsers : PutBufferCheck(u)
    \/ \E u \in PoolUsers : PutBufferLock(u)
    \/ \E u \in PoolUsers : PutBufferPush(u)

PoolSpec == Init /\ [][PoolNext]_vars

\* ---- package logtool: configuration -------------------------------------

NL == "\n"

\* levelName
LevelName ==
    [l \in Levels |->
        CASE l = levelDefault -> "output"
          [] l = LevelDebug -> "debug"
          [] l = LevelInfo -> "info"
          [] l = LevelWarn -> "warn"
          [] l = LevelError -> "error"
          [] l = LevelAction -> "action"]

\* level()
EffLevel == IF flagLoglevel > levelDefault THEN flagLoglevel ELSE logLevel

Idle(g) == call[g].pc = "idle"

\* (*Level).Set(s) on flagLoglevel, as flag.Parse calls it for -loglevel
LevelSet(g, s) ==
    LET m == {l \in Levels : l # levelDefault /\ LevelName[l] = s} IN
    /\ Idle(g)
    /\ IF m # {}
       THEN /\ flagLoglevel' = CHOOSE l \in m : TRUE
            /\ call' = [call EXCEPT ![g] = NoOutcome]
       ELSE /\ call' = [call EXCEPT ![g] = [NoOutcome EXCEPT !.out = "error"]]
            /\ UNCHANGED flagLoglevel
    /\ UNCHANGED <<inited, alsoStdout, logName, logLevel, logWriter, created,
                   pkgMu, writerVars, poolVars>>

ValidLevel(level) == ~(level < LevelDebug \/ level > LevelError)

\* SetLevel(level)
SetLevel(g, level) ==
    /\ Idle(g)
    /\ IF ValidLevel(level)
       THEN /\ logLevel' = level
            /\ call' = [call EXCEPT ![g] = NoOutcome]
       ELSE /\ call' = [call EXCEPT ![g] = [NoOutcome EXCEPT !.pc = "panic"]]
            /\ UNCHANGED logLevel
    /\ UNCHANGED <<inited, alsoStdout, logName, flagLoglevel, logWriter,
                   created, pkgMu, writerVars, poolVars>>

\* SetName(name)
SetName(g, name) ==
    /\ Idle(g)
    /\ IF name # ""
       THEN /\ logName' = name
            /\ call' = [call EXCEPT ![g] = NoOutcome]
       ELSE /\ call' = [call EXCEPT ![g] = [NoOutcome EXCEPT !.pc = "panic"]]
            /\ UNCHANGED logName
    /\ UNCHANGED <<inited, alsoStdout, logLevel, flagLoglevel, logWriter,
                   created, pkgMu, writerVars, poolVars>>

\* Init(logName, logLevel, stdOut): alsoStdout, SetName, SetLevel, inited
InitCall(g, name, level, stdOut) ==
    /\ Idle(g)
    /\ alsoStdout' = stdOut
    /\ logName' = IF name # "" THEN name ELSE logName
    /\ logLevel' = IF name # "" /\ ValidLevel(level) THEN level ELSE logLevel
    /\ inited' = IF name # "" /\ ValidLevel(level) THEN TRUE ELSE inited
    /\ call' = [call EXCEPT ![g] =
                   IF name # "" /\ ValidLevel(level) THEN NoOutcome
                   ELSE [NoOutcome EXCEPT !.pc = "panic"]]
    /\ UNCHANGED <<flagLoglevel, logWriter, created, pkgMu, writerVars,
                   poolVars>>

\* ---- package logtool: the level functions and the log.Logger adapter ----

\* Debug, Info, Warn, Error (and their s and f forms) with level lv
LevelCall(g, lv, msg) ==
    /\ Idle(g)
    /\ call' = [call EXCEPT ![g] =
                   [NoOutcome EXCEPT !.via = "level", !.eff = EffLevel,
                                     !.level = lv, !.msg = msg,
                                     !.pc = IF EffLevel <= lv THEN "write"
                                            ELSE "idle",
                                     !.out = IF EffLevel <= lv THEN "none"
                                             ELSE "filtered"]]
    /\ UNCHANGED <<inited, alsoStdout, logName, logLevel, flagLoglevel,
                   logWriter, created, pkgMu, writerVars, poolVars>>

\* Action(v): msg is the JSON of v
ActionCall(g, msg) ==
    /\ Idle(g)
    /\ call' = [call EXCEPT ![g] =
                   [NoOutcome EXCEPT !.via = "action", !.eff = EffLevel,
                                     !.level = LevelAction, !.msg = msg,
                                     !.pc = "write"]]
    /\ UNCHANGED <<inited, alsoStdout, logName, logLevel, flagLoglevel,
                   logWriter, created, pkgMu, writerVars, poolVars>>

\* the level a marker selects
Marked(m) ==
    CASE m = <<"[", "D", "]">> -> LevelDebug
      [] m = <<"[", "I", "]">> -> LevelInfo
      [] m = <<"[", "W", "]">> -> LevelWarn
      [] m = <<"[", "E", "]">> -> LevelError
      [] OTHER -> levelDefault

RouteKeepMarker(this, data) ==
    IF this = levelDefault /\ Len(data) > 3 /\ data[1] = "["
          /\ Marked(SubSeq(data, 1, 3)) # levelDefault
    THEN [level |-> Marked(SubSeq(data, 1, 3)), msg |-> data]
    ELSE [level |-> this, msg |-> data]

\* (*LogWriter).Write: the level and the text it selects
Route(this, data) ==
    IF this = levelDefault /\ Len(data) > 3 /\ data[1] = "["
          /\ Marked(SubSeq(data, 1, 3)) # levelDefault
    THEN [level |-> Marked(SubSeq(data, 1, 3)),
          msg |-> SubSeq(data, 4, Len(data))]
    ELSE [level |-> this, msg |-> data]

\* (*LogWriter).Write(data) of the adapter NewLogWriter(this)
AdapterWrite(g, this, data) ==
    LET r == Route(this, data)
        pass == r.level = levelDefault \/ EffLevel <= r.level
    IN  /\ Idle(g)
        /\ call' = [call EXCEPT ![g] =
                       [NoOutcome EXCEPT !.via = "adapter", !.this = this,
                                         !.data = data, !.eff = EffLevel,
                                         !.level = r.level, !.msg = r.msg,
                                         !.pc = IF pass THEN "write"
                                                ELSE "idle",
                                         !.out = IF pass THEN "none"
                                                 ELSE "filtered"]]
        /\ UNCHANGED <<inited, alsoStdout, logName, logLevel, flagLoglevel,
                       logWriter, created, pkgMu, writerVars, poolVars>>

\* ---- package logtool: write and initWriter ------------------------------

\* write: not inited, the line goes to the console; else logWriter == nil is
\* read without a lock
FacadeWrite(g) ==
    /\ call[g].pc = "write"
    /\ call' = [call EXCEPT ![g] =
                   IF ~inited
                   THEN [@ EXCEPT !.pc = "idle", !.out = "console"]
                   ELSE IF ~logWriter.tab
                        THEN [@ EXCEPT !.pc = "initlock"]
                        ELSE [@ EXCEPT !.pc = "send"]]
    /\ UNCHANGED <<inited, alsoStdout, logName, logLevel, flagLoglevel,
                   logWriter, created, pkgMu, writerVars, poolVars>>

PkgLockNoWait(g) == pkgMu' = g

\* mu.Lock() of package logtool
PkgLock(g) == pkgMu = "free" /\ pkgMu' = g

\* the deferred mu.Unlock()
PkgUnlock(g) == pkgMu' = "free"

\* initWriter: the lock
InitWriterLock(g) ==
    /\ call[g].pc = "initlock"
    /\ PkgLock(g)
    /\ call' = [call EXCEPT ![g].pc = "initbody"]
    /\ UNCHANGED <<inited, alsoStdout, logName, logLevel, flagLoglevel,
                   logWriter, created, writerVars, poolVars>>

\* initWriter: return when logWriter != nil; else newFileLog, and the first
\* of the two words of logWriter is stored (the -logname and -logpath flags
\* are not given)
InitWriterBody(g) ==
    /\ call[g].pc = "initbody"
    /\ IF logWriter.tab
       THEN /\ PkgUnlock(g)
            /\ call' = [call EXCEPT ![g].pc = "send"]
            /\ UNCHANGED <<logWriter, created>>
       ELSE /\ created' = created + 1
            /\ \E first \in {"tab", "data"} :
                  logWriter' = IF first = "tab"
                               THEN [logWriter EXCEPT !.tab = TRUE]
                               ELSE [logWriter EXCEPT !.data = created + 1]
            /\ call' = [call EXCEPT ![g].pc = "store"]
            /\ UNCHANGED pkgMu
    /\ UNCHANGED <<inited, alsoStdout, logName, logLevel, flagLoglevel,
                   writerVars, poolVars>>

\* initWriter: the other word of logWriter is stored, and the unlock
InitWriterStore(g) ==
    /\ call[g].pc = "store"
    /\ logWriter' = [tab |-> TRUE, data |-> created]
    /\ PkgUnlock(g)
    /\ call' = [call EXCEPT ![g].pc = "send"]
    /\ UNCHANGED <<inited, alsoStdout, logName, logLevel, flagLoglevel,
                   created, writerVars, poolVars>>

\* what fileLogWriter.write puts before the text: the timestamp (not for
\* LevelAction) and GetPrefix(4), which ends in a blank
Stamp(level) == (IF level # LevelAction THEN <<"T">> ELSE <<>>) \o <<"P">>

FrameAlways(level, msg) == Stamp(level) \o msg \o <<NL>>

\* fileLogWriter.write: the record handed to the level's stream
Frame(level, msg) ==
    LET b == Stamp(level) \o msg IN
    IF b[Len(b)] # NL THEN Append(b, NL) ELSE b

\* write: logWriter.write(level, msg), logWriter read without a lock; a
\* method call on a nil interface or with a nil receiver faults
FacadeSend(g) ==
    /\ call[g].pc = "send"
    /\ call' = [call EXCEPT ![g] =
                   IF ~logWriter.tab \/ logWriter.data = 0
                   THEN [@ EXCEPT !.pc = "panic"]
                   ELSE [@ EXCEPT !.pc = "idle", !.out = "sent",
                                  !.w = logWriter.data,
                                  !.rec = Frame(call[g].level, call[g].msg)]]
    /\ UNCHANGED <<inited, alsoStdout, logName, logLevel, flagLoglevel,
                   logWriter, created, pkgMu, writerVars, poolVars>>

\* texts passed to the level functions
Msgs == {<<>>, <<"x">>, <<NL>>, <<"x", NL>>, <<NL, "x">>}

\* data passed to the adapter: a marker, or none, and a text
Marks == {<<>>, <<"[", "D", "]">>, <<"[", "I", "]">>, <<"[", "W", "]">>,
          <<"[", "E", "]">>, <<"[", "X", "]">>, <<"[", "D">>,
          <<"x", "[", "D", "]">>}

AdapterData == {m \o t : m \in Marks, t \in Msgs}

AdapterLevels == {levelDefault, LevelWarn}

FacadeNext ==
    \/ \E s \in LevelStrings : LevelSet(Main, s)
    \/ \E l \in LevelArgs : SetLevel(Main, l)
    \/ \E n \in Names : SetName(Main, n)
    \/ \E n \in Names, l \in LevelArgs, b \in BOOLEAN : InitCall(Main, n, l, b)
    \/ \E l \in LevelDebug..LevelError, m \in Msgs : LevelCall(Main, l, m)
    \/ \E m \in Msgs : ActionCall(Main, m)
    \/ \E this \in AdapterLevels, d \in AdapterData : AdapterWrite(Main, this, d)
    \/ FacadeWrite(Main)
    \/ InitWriterLock(Main)
    \/ InitWriterBody(Main)
    \/ InitWriterStore(Main)
    \/ FacadeSend(Main)

FacadeSpec == Init /\ [][FacadeNext]_vars

\* goroutines start logging once Init has returned
StartNext ==
    \/ /\ ~inited
       /\ \E n \in Names, l \in LevelArgs, b \in BOOLEAN : InitCall(Main, n, l, b)
    \/ /\ inited
       /\ \E g \in Workers, l \in {LevelInfo, LevelError} :
             LevelCall(g, l, <<"x">>)
    \/ \E g \in Workers : FacadeWrite(g)
    \/ \E g \in Workers : InitWriterLock(g)
    \/ \E g \in Workers : InitWriterBody(g)
    \/ \E g \in Workers : InitWriterStore(g)
    \/ \E g \in Workers : FacadeSend(g)

StartSpec == Init /\ [][StartNext]_vars

\* ---- specification ------------------------------------------------------

Next ==
    \/ \E p \in Callers, l \in UsedLevels, n \in RecLens, t \in 0..MaxTime :
          WriteBegin(p, l, n, t)
    \/ \E p \in Callers : WriteLock(p)
    \/ \E p \in Callers : WriteCreate(p)
    \/ \E p \in Callers : WriteCreateFail(p)
    \/ \E p \in Callers : WriteAppend(p)
    \/ \E f \in Flushers : FlushLock(f)
    \/ \E f \in Flushers : FlushBody(f)

Spec == Init /\ [][Next]_vars

\* ---- what the histories say --------------------------------------------

Range(q) == {q[i] : i \in 1..Len(q)}

Rids == 1..Len(recs)

DoneRids == {r \in Rids : recs[r].state = "done"}

\* the bytes of record r that bufferWriter.Write accepted
Accepted(r) == {<<r, j>> : j \in 1..recs[r].acc}

OnDisk(b) == \E n \in DOMAIN disk : b \in Range(disk[n])

\* the bytes handed to file n: those written, then those its stream buffers
View(n) ==
    LET sb == writers[n.level] IN
    Content(disk, n) \o
        (IF ~sb.file.nil /\ sb.file.name = n THEN sb.Writer.buf ELSE <<>>)

\* q is a concatenation of complete records
Whole(q) ==
    \A i \in 1..Len(q) :
        LET r == q[i][1]
            j == q[i][2]
        IN  /\ IF j = 1 THEN TRUE ELSE i > 1 /\ q[i - 1] = <<r, j - 1>>
            /\ IF j = recs[r].len THEN TRUE
               ELSE i < Len(q) /\ q[i + 1] = <<r, j + 1>>

\* where record r starts in the files
Starts(r) == {<<n, i>> \in UNION {{n} \X (1..Len(View(n))) : n \in DOMAIN disk} :
                 View(n)[i] = <<r, 1>>}

\* the records of q, in order
RidsOf(q) == SelectSeq([i \in 1..Len(q) |-> IF q[i][2] = 1 THEN q[i][1] ELSE 0],
                       LAMBDA x : x # 0)

Increasing(q) == \A i, j \in 1..Len(q) : i < j => q[i] < q[j]

InCS(p) == pc[p] \in {"create", "append", "flush"}

\* the records of level l, in the order their writes acquired w.mu
Of(l) == {r \in Rids : recs[r].level = l}

RECURSIVE SumLen(_)
SumLen(S) ==
    IF S = {} THEN 0
    ELSE LET r == CHOOSE x \in S : TRUE IN recs[r].len + SumLen(S \ {r})

\* the records of the rids of q, one after the other
RECURSIVE Concat(_)
Concat(q) ==
    IF q = <<>> THEN <<>>
    ELSE Record(Head(q), recs[Head(q)].len) \o Concat(Tail(q))

\* the rids of S in the order of lock acquisition
InLockOrder(S) == SelectSeq([r \in Rids |-> r], LAMBDA r : r \in S)

\* ---- claims -------------------------------------------------------------

\* C1: with no file operation failing, the bytes handed to a level's files
\* are complete records, bytes of one record contiguous and in order, and
\* every write that returned has its record there exactly once, every other
\* write not at all.
C1_CompleteRecords ==
    console = {} =>
        /\ \A n \in DOMAIN disk : Whole(View(n))
        /\ \A r \in Rids :
              Cardinality(Starts(r)) = IF recs[r].state = "done" THEN 1 ELSE 0

\* C1 witness: records of both lengths written to two files without a
\* failure, a third being written while the other caller waits for the lock.
C1_Witness ==
    /\ console = {}
    /\ Cardinality(DoneRids) = 2
    /\ pc["a"] = "append" /\ pc["b"] = "lock"
    /\ \E r \in DoneRids : recs[r].len = 3
    /\ Cardinality({recs[r].dest : r \in DoneRids}) > 1

\* C2: when all write calls to a level so far carry the same date and hour
\* and their sizes add up to less than MaxSize, the level has one file, slot 0
\* of that hour, every record appended is in it, and the file holds the
\* records in the order in which their writes acquired w.mu.
C2_SameHourOneFile ==
    \A l \in Levels :
        LET rs == Of(l) IN
        (/\ rs # {}
         /\ \A r, q \in rs : recs[r].now = recs[q].now
         /\ SumLen(rs) < MaxSize)
        => LET n == FileName(l, 0, recs[CHOOSE r \in rs : TRUE].now) IN
           /\ \A m \in DOMAIN disk : m.level = l => m = n
           /\ \A r \in rs : recs[r].state = "done" => recs[r].dest = n
           /\ View(n) = Concat(InLockOrder(rs \cap DoneRids))

\* C2 witness: two records written in the same hour, below MaxSize.
C2_Witness ==
    /\ Len(recs) = 2
    /\ DoneRids = {1, 2}
    /\ recs[1].now = recs[2].now
    /\ SumLen(Of(LevelInfo)) < MaxSize
    /\ Len(View(FileName(LevelInfo, 0, recs[1].now))) = 2

\* exit() returns: its flushAll, entered with the call, ends
ExitReturns == pc[Exiter] = "flush" /\ pc'[Exiter] = "idle"

C4_OneFileFlushedBeforeNext ==
    /\ \A l \in Levels : nopen[l] <= 1
    /\ \A p \in Callers :
          pc[p] = "create" =>
              LET sb == writers[cur[p].level] IN
              /\ ~sb.file.open
              /\ sb.Writer.buf = <<>>
    /\ \A n \in DOMAIN disk : \A b \in Range(disk[n]) : recs[b[1]].dest = n

\* the write of p found no file open, or one opened on another date or hour
OtherHour(p) ==
    LET sb == writers[cur[p].level] IN
    \/ sb.file.nil
    \/ ~SameDate(sb.stime, cur[p].now)
    \/ ~SameHour(sb.stime, cur[p].now)

\* C5: a write that finds no file open, or a file opened on another date or
\* in another hour than its timestamp, has rotateFile called with slot 0,
\* whatever nbytes is; and a record is only appended once the stream's file
\* is the file of the timestamp's date and hour (slot 0 after such a rotation).
C5_HourRotationFirst ==
    \A p \in Callers :
        LET sb == writers[cur[p].level] IN
        /\ (pc[p] = "create" /\ OtherHour(p)) => cur[p].slot = 0
        /\ pc[p] = "append" =>
              /\ ~OtherHour(p)
              /\ sb.file.name = FileName(cur[p].level, sb.slot, cur[p].now)
        /\ (pc[p] = "append" /\ cur[p].rot) =>
              /\ sb.file.open
              /\ sb.stime = cur[p].now
              /\ sb.slot = cur[p].slot

\* C5 witness: rotateFile is called with slot 0 for another hour while the
\* open file is slot 1 and has reached MaxSize.
C5_Witness ==
    \E p \in Callers :
        LET sb == writers[cur[p].level] IN
        /\ pc[p] = "create"
        /\ ~sb.file.nil
        /\ ~SameHour(sb.stime, cur[p].now)
        /\ sb.nbytes >= MaxSize
        /\ sb.slot = 1
        /\ cur[p].slot = 0

\* the bytes accepted since the stream's file was opened: those written to
\* the file since then and those in the buffer
SinceOpen(sb) ==
    Len(Content(disk, sb.file.name)) - sb.file.base + Len(sb.Writer.buf)

C6_Inv ==
    /\ \A p \in Callers :
          LET sb == writers[cur[p].level] IN
          /\ (pc[p] = "create" /\ ~OtherHour(p)) =>
                /\ sb.nbytes >= MaxSize
                /\ cur[p].slot = sb.slot + 1
          /\ (pc[p] = "append" /\ cur[p].rot) =>
                /\ sb.nbytes = 0
                /\ sb.slot = cur[p].slot
                /\ sb.file.open
                /\ sb.file.name = FileName(cur[p].level, cur[p].slot, cur[p].now)
          /\ (pc[p] = "append" /\ ~cur[p].rot) => sb.nbytes < MaxSize
    /\ \A l \in Levels :
          ~writers[l].file.nil => writers[l].nbytes = SinceOpen(writers[l])

C6_Step ==
    \A p \in Callers :
        LET l == cur[p].level IN
        /\ (pc[p] = "lock" /\ pc'[p] = "append") =>
              /\ writers[l].made
              /\ writers'[l] = writers[l]
        /\ (pc[p] = "append" /\ pc'[p] = "idle") =>
              /\ recs'[cur[p].rid].dest = writers[l].file.name
              /\ writers'[l].nbytes = writers[l].nbytes + recs'[cur[p].rid].acc
              /\ writers'[l].file = writers[l].file
              /\ writers'[l].slot = writers[l].slot
              /\ writers'[l].stime = writers[l].stime

\* C6: a write in the date and hour of the open file has rotateFile called,
\* with slot+1, exactly when nbytes >= MaxSize; after that rotation nbytes is
\* 0, the stream's file is slot+1 of the same hour and the record goes to it;
\* with nbytes < MaxSize the stream is left as it is; and nbytes is the number
\* of bytes accepted since the stream's file was opened.
C6_SizeRotation == []C6_Inv /\ [][C6_Step]_vars

\* C6 witness: the stream is on slot 1 after a size rotation and has
\* accepted a record there.
C6_Witness ==
    LET sb == writers[LevelInfo] IN
    /\ sb.slot = 1
    /\ sb.file.open
    /\ sb.nbytes > 0
    /\ mu = "free"

\* the bytes of record r that are in a file or in a stream's buffer
Kept(r) ==
    {b \in Range(Record(r, recs[r].len)) :
        \/ OnDisk(b)
        \/ \E l \in Levels : b \in Range(writers[l].Writer.buf)}

\* C7: a write whose file creation fails returns without a fault, its record
\* is in no file and no buffer, the failure is on the console, and a later
\* write appends only after a file has been created: no write reaches its
\* append while the stream's file is not open.
C7_FailedCreateRetried ==
    /\ \A p \in Callers \cup Flushers : pc[p] # "panic"
    /\ \A r \in Rids :
          recs[r].state = "dropped" => r \in console /\ Kept(r) = {}
    /\ \A p \in Callers :
          pc[p] = "append" => writers[cur[p].level].file.open

\* C8: flushAll never faults, and a stream with a buffered writer has a file
\* handle.
C8_FlushAllNoFault ==
    /\ \A p \in Callers \cup Flushers : pc[p] # "panic"
    /\ \A l \in Levels : writers[l].Writer.set => ~writers[l].file.nil

\* C8 witness: flushAll runs over a stream whose first file creation failed
\* and over levels that have no stream.
C8_Witness ==
    /\ \E f \in Flushers : pc[f] = "flush"
    /\ writers[LevelInfo].made /\ ~writers[LevelInfo].Writer.set
    /\ \E l \in Levels : ~writers[l].made

C9_Inv ==
    /\ Cardinality({p \in Callers \cup Flushers : InCS(p)}) <= 1
    /\ \A p \in Callers \cup Flushers : InCS(p) => mu = p
    /\ \A f \in Flushers :
          pc[f] = "flush" => \A p \in Callers : pc[p] \notin {"create", "append"}

C9_Step ==
    writers' # writers =>
        \E p \in Callers \cup Flushers :
            /\ mu = p \/ mu' = p
            /\ pc'[p] # pc[p]
            /\ \A q \in (Callers \cup Flushers) \ {p} : ~InCS(q) /\ pc'[q] = pc[q]

\* C9: at most one goroutine is between w.mu.Lock() and the unlock, it is
\* the holder of w.mu, a stream's fields change only in a step of the holder,
\* and while flushAll runs no write is between closing a stream's old file and
\* installing its new buffered writer.
C9_StreamsUnderLock == []C9_Inv /\ [][C9_Step]_vars

\* C9 witness: a write is between the close of the old file and createFile
\* while the other caller waits for the lock.
C9_Witness ==
    /\ pc["a"] = "create"
    /\ pc["b"] = "lock"
    /\ ~writers[cur["a"].level].file.nil
    /\ ~writers[cur["a"].level].file.open

\* C10: no accepted byte is discarded: a byte that a stream's buffered
\* writer accepted is in the file that was the stream's when it was accepted,
\* or still in the stream's buffer.
C10_NoAcceptedByteDiscarded ==
    \A r \in DoneRids : \A b \in Accepted(r) :
        \/ b \in Range(Content(disk, recs[r].dest))
        \/ b \in Range(writers[recs[r].level].Writer.buf)

\* does the text q end with a newline
EndsNL(q) == Len(q) > 0 /\ q[Len(q)] = NL

\* C11: the record handed to the writer ends with a newline; it is the
\* stamp and the message, with one newline more exactly when the message
\* does not end with one (the empty message too).
C11_OneTrailingNewline ==
    \A g \in Goers :
        call[g].out = "sent" =>
            LET rec == call[g].rec
                msg == call[g].msg
                h == Len(Stamp(call[g].level))
            IN  /\ EndsNL(rec)
                /\ SubSeq(rec, 1, h + Len(msg)) = Stamp(call[g].level) \o msg
                /\ Len(rec) = h + Len(msg) + (IF EndsNL(msg) THEN 0 ELSE 1)

\* C11 witness: the record of the empty message was handed over: stamp and
\* one newline.
C11_Witness ==
    /\ call[Main].out = "sent"
    /\ call[Main].msg = <<>>
    /\ call[Main].level = LevelInfo
    /\ call[Main].rec = <<"T", "P", NL>>

\* the marker of a level the adapter recognises
MarkerOf(l) ==
    CASE l = LevelDebug -> <<"[", "D", "]">>
      [] l = LevelInfo -> <<"[", "I", "]">>
      [] l = LevelWarn -> <<"[", "W", "]">>
      [] l = LevelError -> <<"[", "E", "]">>

\* C14: the adapter of the Default level: data longer than 3 bytes that
\* starts with [D], [I], [W] or [E] goes to that level without the marker
\* and is passed on exactly when the effective level is <= that level; all
\* other data goes to the Default level unchanged and is always passed on.
C14_AdapterRouting ==
    \A g \in Goers :
        (call[g].via = "adapter" /\ call[g].this = levelDefault) =>
            LET d == call[g].data
                ls == {l \in LevelDebug..LevelError :
                          Len(d) > 3 /\ SubSeq(d, 1, 3) = MarkerOf(l)}
                passed == call[g].out # "filtered"
            IN  IF ls # {}
                THEN /\ call[g].level \in ls
                     /\ call[g].msg = SubSeq(d, 4, Len(d))
                     /\ passed <=> call[g].eff <= call[g].level
                ELSE /\ call[g].level = levelDefault
                     /\ call[g].msg = d
                     /\ passed

\* C14 witness: [W] data was routed to Warn and held back by the effective
\* level Error.
C14_Witness ==
    /\ call[Main].via = "adapter"
    /\ call[Main].this = levelDefault
    /\ call[Main].data = <<"[", "W", "]", "x", NL>>
    /\ call[Main].level = LevelWarn
    /\ call[Main].eff = LevelError
    /\ call[Main].out = "filtered"

\* C15: the configuration in effect is valid: the effective level is one of
\* Debug, Info, Warn, Error, logLevel is, and logName is not empty.
C15_ValidConfigOnly ==
    /\ EffLevel \in LevelDebug..LevelError
    /\ logLevel \in LevelDebug..LevelError
    /\ logName # ""

\* C16: newFileLog is called at most once, no goroutine's call of write
\* faults, and every record is handed to the one fileLogWriter.
C16_OneWriterForAll ==
    /\ created <= 1
    /\ \A g \in Workers : call[g].pc # "panic"
    /\ \A g \in Workers : call[g].out = "sent" => call[g].w = 1

\* C17: for one level, date and hour, the slot of the file that receives a
\* record never decreases over the records in the order of their appends.
C17_SlotsNeverDecrease ==
    \A r, q \in DoneRids :
        (/\ r < q
         /\ recs[r].level = recs[q].level
         /\ recs[r].dest.day = recs[q].dest.day
         /\ recs[r].dest.hour = recs[q].dest.hour)
        => recs[r].dest.slot <= recs[q].dest.slot

\* C18: no step removes or changes a byte of a file: every file stays, and
\* its content before the step is a prefix of its content after the step.
C18_FilesOnlyGrow ==
    [][\A n \in DOMAIN disk :
          /\ n \in DOMAIN disk'
          /\ Len(disk[n]) <= Len(disk'[n])
          /\ SubSeq(disk'[n], 1, Len(disk[n])) = disk[n]]_vars

\* C18 witness: a file name used earlier was opened again by a rotation,
\* bytes were in the file then, and more bytes have been written to it since.
C18_Witness ==
    \E l \in Levels :
        LET sb == writers[l] IN
        /\ sb.file.open
        /\ sb.file.base > 0
        /\ Len(Content(disk, sb.file.name)) > sb.file.base

\* C19: a record write appended went to the file of its own timestamp's date
\* and hour, and every byte in a file or in a stream's buffer is in (or bound
\* for) the file of the date and hour of its record's timestamp.
C19_RecordInFileOfItsHour ==
    /\ \A r \in DoneRids :
          /\ recs[r].dest.level = recs[r].level
          /\ recs[r].dest.day = recs[r].now.day
          /\ recs[r].dest.hour = recs[r].now.hour
    /\ \A n \in DOMAIN disk : \A b \in Range(disk[n]) :
          /\ n.level = recs[b[1]].level
          /\ n.day = recs[b[1]].now.day
          /\ n.hour = recs[b[1]].now.hour
    /\ \A l \in Levels : \A b \in Range(writers[l].Writer.buf) :
          /\ writers[l].file.name.day = recs[b[1]].now.day
          /\ writers[l].file.name.hour = recs[b[1]].now.hour

\* C19 witness: two writes took their timestamps on opposite sides of an
\* hour boundary and acquired w.mu in the reverse order; both records are in
\* files.
C19_Witness ==
    \E r, q \in DoneRids :
        /\ r < q
        /\ recs[r].now.day = recs[q].now.day
        /\ recs[r].now.hour > recs[q].now.hour
        /\ \A b \in Accepted(r) \cup Accepted(q) : OnDisk(b)
        /\ recs[r].acc > 0 /\ recs[q].acc > 0

\* C20: a write appends only while its stream's file is open, so the
\* buffered writer of a closed file holds no byte, and flushAll flushes only
\* streams whose file is open.
C20_NoAppendToClosedFile ==
    /\ \A p \in Callers :
          pc[p] = "append" => writers[cur[p].level].file.open
    /\ \A l \in Levels :
          (writers[l].Writer.set /\ ~writers[l].file.open)
              => writers[l].Writer.buf = <<>>
    /\ \A f \in Flushers :
          pc[f] = "flush" =>
              \A l \in Levels : Flushable(writers[l]) => writers[l].file.open

\* the buffers on the free list, from buffer b on
RECURSIVE Chain(_, _)
Chain(b, fuel) ==
    IF b = 0 \/ fuel = 0 THEN {}
    ELSE {b} \cup Chain(buffers[b].next, fuel - 1)

FreeBuffers == Chain(freeList, Len(buffers))

\* u has a buffer: from the unlock in getBuffer to the end of putBuffer
Holds(u) == user[u].b # 0 /\ user[u].pc \in {"fresh", "got", "use", "putlock", "push"}

\* C12: no buffer on the free list has a capacity of 256 bytes or more.
C12_NoBigBufferOnFreeList ==
    \A b \in FreeBuffers : buffers[b].cap < BigBuffer

\* C13: a buffer is held by at most one user at a time, a held buffer is
\* not on the free list, and the buffer getBuffer returns is empty.
C13_OneHolderEmptyBuffer ==
    /\ \A u, v \in PoolUsers :
          (u # v /\ Holds(u) /\ Holds(v)) => user[u].b # user[v].b
    /\ \A u \in PoolUsers : Holds(u) => user[u].b \notin FreeBuffers
    /\ \A u \in PoolUsers :
          user[u].pc = "got" =>
              /\ buffers[user[u].b].len = 0
              /\ buffers[user[u].b].next = 0

\* C13 witness: getBuffer has just returned a recycled buffer, which held
\* bytes before, while the other user holds another buffer.
C13_Witness ==
    /\ user["u"].pc = "got"
    /\ buffers[user["u"].b].cap > 0
    /\ user["v"].pc = "use"
    /\ buffers[user["v"].b].len > 0

TypeOK ==
    /\ mu \in Callers \cup Flushers \cup {"free"}
    /\ \A l \in Levels : writers[l].nbytes >= 0

====
